---- MODULE Spec2Model ----
(***************************************************************************)
(* Road Speed Limits: the coordinator session (movement trigger, refresh   *)
(* cycle with geospatial cache and provider fallback, fallback resolver).  *)
(*                                                                         *)
(* Numbers.  Coordinates are integers in units of 1/UnitsPerDegree of a    *)
(* degree, i.e. about one metre of arc (R*pi/180 = 111194.9 m per degree). *)
(* _calculate_distance is the haversine formula; for the displacements of  *)
(* a few metres near the equator that the model draws it is the planar     *)
(* distance sqrt(dlat^2 + dlon^2) in these units (exact along a meridian   *)
(* and along the equator), so the model compares squares of integers.      *)
(* Speeds and times are integers.  Python None is the value of its own     *)
(* kind in every record below.                                             *)
(***************************************************************************)
EXTENDS Integers, Sequences, FiniteSets, TLC

(* ---------------------------------------------------------------------- *)
(* Program constants                                                      *)
(* ---------------------------------------------------------------------- *)
EarthRadius == 6371000
LatLimit == 90
LonLimit == 180
CACHE_SPEED_THRESHOLD == 16
CacheTtl == 300

DATA_SOURCE_OSM == "osm"
DATA_SOURCE_TOMTOM == "tomtom"
DATA_SOURCE_HERE == "here"
UNIT_KMH == "km/h"
UNIT_MPH == "mph"

Providers == {DATA_SOURCE_HERE, DATA_SOURCE_TOMTOM, DATA_SOURCE_OSM}
Units == {UNIT_KMH, UNIT_MPH}

(* fallback_order of _async_update_data and of get_primary_data *)
fallback_order == <<DATA_SOURCE_HERE, DATA_SOURCE_TOMTOM, DATA_SOURCE_OSM>>

(* get_provider_name(): DATA_SOURCE_NAMES[source] *)
DATA_SOURCE_NAMES(source) ==
    CASE source = DATA_SOURCE_OSM -> "OpenStreetMap"
      [] source = DATA_SOURCE_TOMTOM -> "TomTom"
      [] source = DATA_SOURCE_HERE -> "HERE Maps"

(* active_provider_name before any provider was used (Python None) *)
NoName == "None"

(* ---------------------------------------------------------------------- *)
(* Bounds of the model                                                    *)
(* ---------------------------------------------------------------------- *)
MaxTime == 450
MaxCycles == 2
MaxCyclesFlags == 3
MaxCyclesMovement == 1
MaxSpeed == 130
MaxElements == 3

(* model units per degree: floor(R * pi / 180) *)
UnitsPerDegree == ((EarthRadius \div 1000) * 314159) \div (180 * 100)
(* time advances in steps of half the TTL, so that an entry is seen at an  *)
(* age below the TTL, exactly at the TTL and above it                      *)
TickStep == CacheTtl \div 2

(* ---------------------------------------------------------------------- *)
(* Values read from entities                                              *)
(* ---------------------------------------------------------------------- *)
(* A scalar as an entity carries it: a number, nothing, text that float()  *)
(* rejects, or one of the two reserved state strings.                      *)
Num(n) == [k |-> "num", v |-> n]
Absent == [k |-> "none", v |-> 0]
Garbage == [k |-> "bad", v |-> 0]
Unavailable == [k |-> "unavailable", v |-> 0]
Unknown == [k |-> "unknown", v |-> 0]

(* hass.states.get(entity_id): None, or a State with attributes and state *)
NoEntity == [exists |-> FALSE, attr |-> Absent, state |-> Absent]
Entity(a, s) == [exists |-> TRUE, attr |-> a, state |-> s]

(* helpers.get_coordinate_from_entity: the attribute if float() accepts    *)
(* it, else the state unless it is unavailable/unknown or not a number.    *)
get_coordinate_from_entity(entity_state) ==
    IF ~entity_state.exists THEN Absent
    ELSE IF entity_state.attr.k = "num" THEN entity_state.attr
    ELSE IF entity_state.state.k \in {"unavailable", "unknown"} THEN Absent
    ELSE IF entity_state.state.k = "num" THEN entity_state.state
    ELSE Absent

(* mutant: a coordinate that could not be read passes as 0.0 *)
validate_coordinates_NoneAsZero(latitude, longitude) ==
    /\ -LatLimit * UnitsPerDegree <= latitude.v
    /\ latitude.v <= LatLimit * UnitsPerDegree
    /\ -LonLimit * UnitsPerDegree <= longitude.v
    /\ longitude.v <= LonLimit * UnitsPerDegree

(* helpers.validate_coordinates *)
validate_coordinates(latitude, longitude) ==
    /\ latitude.k = "num" /\ longitude.k = "num"
    /\ -LatLimit * UnitsPerDegree <= latitude.v
    /\ latitude.v <= LatLimit * UnitsPerDegree
    /\ -LonLimit * UnitsPerDegree <= longitude.v
    /\ longitude.v <= LonLimit * UnitsPerDegree

(* coordinator._calculate_distance, squared *)
calculate_distance2(lat1, lon1, lat2, lon2) ==
    (lat2 - lat1) * (lat2 - lat1) + (lon2 - lon1) * (lon2 - lon1)

(* mutant: strict comparison in the movement threshold *)
MovedEnough_Strict(distance2, min_distance) ==
    distance2 > min_distance * min_distance

(* _on_location_change: distance >= self.min_update_distance *)
MovedEnough(distance2, min_distance) ==
    distance2 >= min_distance * min_distance

(* ---------------------------------------------------------------------- *)
(* Unit conversion                                                        *)
(* ---------------------------------------------------------------------- *)
(* mutant: mph values are rounded to the nearest multiple of 5 *)
convert_speed_Nearest(speed, from_unit, to_unit) ==
    IF from_unit = to_unit
    THEN IF to_unit = UNIT_MPH THEN ((speed + 2) \div 5) * 5 ELSE speed
    ELSE IF from_unit = UNIT_KMH /\ to_unit = UNIT_MPH
         THEN ((speed * 1000000 + 4023360) \div (1609344 * 5)) * 5
    ELSE IF from_unit = UNIT_MPH /\ to_unit = UNIT_KMH
         THEN (speed * 1609344 * 2 + 1000000) \div (2 * 1000000)
    ELSE speed

(* helpers.convert_speed for a speed that is not None; 1.609344 is kept as *)
(* the ratio 1609344 / 1000000                                             *)
convert_speed(speed, from_unit, to_unit) ==
    IF from_unit = to_unit
    THEN IF to_unit = UNIT_MPH THEN (speed \div 5) * 5 ELSE speed
    ELSE IF from_unit = UNIT_KMH /\ to_unit = UNIT_MPH
         THEN ((speed * 1000000) \div (1609344 * 5)) * 5
    ELSE IF from_unit = UNIT_MPH /\ to_unit = UNIT_KMH
         THEN (speed * 1609344 * 2 + 1000000) \div (2 * 1000000)
    ELSE speed

(* ---------------------------------------------------------------------- *)
(* SpeedLimitData and ResultSet                                           *)
(* ---------------------------------------------------------------------- *)
(* speed_limit None is NoSpeed; the unit None of OSM's empty result is     *)
(* "None".  none = TRUE is the Python None stored for a failed provider.   *)
(* road_name and distance play no part in any decision and are left out.   *)
NoSpeed == -1
NoUnit == "None"
NoneEntry == [none |-> TRUE, speed_limit |-> NoSpeed, unit |-> NoUnit]
Result(s, u) == [none |-> FALSE, speed_limit |-> s, unit |-> u]

(* `res and res.get("speed_limit") is not None` *)
HasData(rs, source) ==
    /\ source \in DOMAIN rs
    /\ ~rs[source].none
    /\ rs[source].speed_limit # NoSpeed

(* self.data.get(source): None for a missing key *)
DataGet(rs, source) == IF source \in DOMAIN rs THEN rs[source] ELSE NoneEntry

EmptyResults == [p \in {} |-> NoneEntry]

(* mutant: the None of a failed provider is not recorded *)
Put_SkipNone(rs, source, value) ==
    IF value.none THEN rs
    ELSE [p \in (DOMAIN rs) \cup {source} |->
             IF p = source THEN value ELSE rs[p]]

(* results[source] = value *)
Put(rs, source, value) ==
    [p \in (DOMAIN rs) \cup {source} |-> IF p = source THEN value ELSE rs[p]]

(* ---------------------------------------------------------------------- *)
(* Geospatial cache                                                       *)
(* ---------------------------------------------------------------------- *)
(* round(x, 4) of a coordinate in degrees: the nearest multiple of 1e-4    *)
(* degree (no coordinate of the model lies on a tie).  Python prints a     *)
(* negative value that rounds to zero as "-0.0", a different key text.     *)
Round4(u) == (2 * u * 10000 + UnitsPerDegree) \div (2 * UnitsPerDegree)
RoundKey(u) == [n |-> Round4(u), negzero |-> (u < 0 /\ Round4(u) = 0)]

(* mutant: the key is built from the latitude alone *)
get_cache_key_LatOnly(lat, lon) == <<RoundKey(lat), RoundKey(lat)>>

(* _get_cache_key: f"{round(lat, 4)}_{round(lon, 4)}" *)
get_cache_key(lat, lon) == <<RoundKey(lat), RoundKey(lon)>>

(* mutant: the age test of the cache is <= instead of < *)
CacheFresh_Inclusive(timestamp, time) == time - timestamp <= CacheTtl

(* _get_cached_data: time.time() - timestamp < self._cache_ttl *)
CacheFresh(timestamp, time) == time - timestamp < CacheTtl

(* mutant: an expired entry stays in the cache *)
CacheDel_Keep(c, key) == c

(* del self._cache[key] *)
CacheDel(c, key) == [k \in (DOMAIN c) \ {key} |-> c[k]]

(* _set_cached_data: self._cache[key] = (data, time.time()) *)
set_cached_data(c, lat, lon, rs, time) ==
    LET key == get_cache_key(lat, lon)
    IN [k \in (DOMAIN c) \cup {key} |->
            IF k = key THEN [data |-> rs, timestamp |-> time] ELSE c[k]]

EmptyCache == [k \in {} |-> [data |-> EmptyResults, timestamp |-> 0]]

(* ---------------------------------------------------------------------- *)
(* Provider outcomes                                                      *)
(* ---------------------------------------------------------------------- *)
(* What fetch_speed_limit can do: raise, or return a SpeedLimitData.  The  *)
(* empty result of OSM has unit None, that of TomTom and HERE "km/h".      *)
ExceptionKinds == {"ClientError", "TimeoutError", "ValueError", "KeyError"}
FetchErrors == {"ClientError", "TimeoutError", "ValueError"}

EmptyResult(source) ==
    Result(NoSpeed, IF source = DATA_SOURCE_OSM THEN NoUnit ELSE UNIT_KMH)

(* speed limits the providers of the model report *)
ReportedLimits == {Result(55, UNIT_MPH)}

(* what a provider whose roads carry the limits `limits` returns *)
FetchReturnsOf(source, limits) == {EmptyResult(source)} \cup limits

FetchReturns(source) == FetchReturnsOf(source, ReportedLimits)

(* limits in both units, one in mph that is no multiple of 5: OSM reports  *)
(* the number of the maxspeed tag as it is, in the tag's unit, and TomTom  *)
(* and HERE report mph as well as km/h                                     *)
MixedLimits == {Result(57, UNIT_MPH), Result(80, UNIT_KMH)}

(* mutant: only transport errors are caught *)
Catches_TransportOnly(kind) == kind \in {"ClientError", "TimeoutError"}

(* `except Exception`: every exception a provider query raises, and the    *)
(* KeyError of self.providers[self.data_source], is an Exception           *)
Catches(kind) == kind \in ExceptionKinds

(* mutant: the conversion keeps the provider's unit *)
apply_unit_conversion_Off(d, unit_pref) == d

(* _apply_unit_conversion *)
apply_unit_conversion(d, unit_pref) ==
    IF d.none \/ d.speed_limit = NoSpeed THEN d
    ELSE IF d.unit # NoUnit /\ d.unit # unit_pref
         THEN Result(convert_speed(d.speed_limit, d.unit, unit_pref), unit_pref)
         ELSE d

(* mutant: TomTom is preferred to HERE *)
available_fallbacks_TomTomFirst(configured, primary) ==
    SelectSeq(<<DATA_SOURCE_TOMTOM, DATA_SOURCE_HERE, DATA_SOURCE_OSM>>,
              LAMBDA source : source \in configured /\ source # primary)

(* mutant: the primary is not skipped and no source is checked against the *)
(* configured providers                                                    *)
available_fallbacks_All(configured, primary) == fallback_order

(* available_fallbacks of _async_update_data *)
available_fallbacks(configured, primary) ==
    SelectSeq(fallback_order,
              LAMBDA source : source \in configured /\ source # primary)

(* ---------------------------------------------------------------------- *)
(* State                                                                  *)
(* ---------------------------------------------------------------------- *)
VARIABLES
    data_source,          \* session config: the primary provider
    providers,            \* session config: keys of self.providers
    unit_preference,      \* session config
    min_update_distance,  \* session config
    speed_entity_id,      \* session config: TRUE iff a speed entity is set
    tomtom_api_key,       \* session config: argument of __init__
    here_api_key,         \* session config: argument of __init__
    latitude, longitude,  \* the current coordinate
    last_api_latitude, last_api_longitude,
    fallback_active, active_provider_name,
    cache,                \* self._cache: key -> (data, timestamp)
    data,                 \* coordinator.data; empty before the first refresh
    lat_state, lon_state, \* hass.states of the two coordinate entities
    speed_state,          \* state of the speed entity
    now,                  \* time.time()
    pc,                   \* where the refresh cycle is: idle, primary, fallback
    results,              \* the cycle's local `results`
    pending,              \* available_fallbacks from the one awaited on
    refresh_requested,    \* a refresh was requested and has not started
    cyc,                  \* history: what the current or last cycle did
    surfaced,             \* history: last return of get_primary_data
    last_motion,          \* history: time of the last qualifying movement
    ncycles,              \* history: number of cycles started
    conversion,           \* a call of helpers.convert_speed on its own
    fetch,                \* a call of a provider's fetch_speed_limit on its own
    parse,                \* a call of OSM's _parse_osm_response on its own
    entry_loaded,         \* host: the config entry and its platforms are loaded
    unsub_listeners,       \* entities whose state changes the session listens to
    fixes                 \* host: the pairs the location source reported and the
                          \* pair it is delivering, entity by entity

config == <<data_source, providers, unit_preference, min_update_distance,
            speed_entity_id, tomtom_api_key, here_api_key>>
session == <<latitude, longitude, last_api_latitude, last_api_longitude,
             fallback_active, active_provider_name, cache, data>>
environment == <<lat_state, lon_state, speed_state, now>>
cycle == <<pc, results, pending, refresh_requested>>
history == <<cyc, surfaced, last_motion, ncycles>>
calls == <<conversion, fetch, parse>>
host == <<entry_loaded, unsub_listeners, fixes>>
vars == <<config, session, environment, cycle, history, calls, host>>

(* ---------------------------------------------------------------------- *)
(* Inputs of the model                                                    *)
(* ---------------------------------------------------------------------- *)
MinDistance == 20
MaxIdleDuration == 60

(* first values beyond the valid range *)
LatOutOfRange == {LatLimit * UnitsPerDegree + 1, -LatLimit * UnitsPerDegree - 1}
LonOutOfRange == {LonLimit * UnitsPerDegree + 1}

(* states of the latitude entity: a bare numeric sensor at the start, one  *)
(* short of the movement threshold, at it, and out of range; a tracker     *)
(* with the coordinate as attribute; an attribute float() rejects over a   *)
(* numeric state; unusable states; no entity                               *)
LatEntityStates ==
    {Entity(Absent, Num(x)) :
        x \in {0, MinDistance - 1, MinDistance} \cup LatOutOfRange}
    \cup {Entity(Num(MinDistance), Garbage),
          Entity(Garbage, Num(MinDistance - 1)),
          Entity(Absent, Unavailable), Entity(Absent, Garbage), NoEntity}
LonEntityStates ==
    {Entity(Absent, Num(x)) : x \in {0, MinDistance} \cup LonOutOfRange}
    \cup {Entity(Absent, Unknown)}

SpeedStates == {Absent, Unavailable, Garbage,
                Num(CACHE_SPEED_THRESHOLD - 1), Num(CACHE_SPEED_THRESHOLD)}

(* ---------------------------------------------------------------------- *)
(* Init: after RoadSpeedLimitsCoordinator.__init__ and                    *)
(* setup_subscriptions, the first refresh of async_setup_entry pending    *)
(* ---------------------------------------------------------------------- *)
(* history of a cycle: where its ResultSet came from, how it ended, the   *)
(* providers queried in order, what each of them did before conversion    *)
(* (None for an exception), and whether every provider query and the      *)
(* cache write so far used the coordinate (steady) and the cache cell     *)
(* (same_cell) the cycle started at                                       *)
NoCycle == [src |-> "none", status |-> "none", queried |-> <<>>,
            raw |-> EmptyResults, steady |-> TRUE, same_cell |-> TRUE]

(* __init__: OSM always, TomTom and HERE iff their key is present *)
ProviderSets == {{DATA_SOURCE_OSM} \cup s :
                    s \in SUBSET {DATA_SOURCE_TOMTOM, DATA_SOURCE_HERE}}

(* an API key: None, the empty string, a key *)
NoKey == "None"
ApiKeys == {NoKey, "", "secret"}

(* mutant: a provider is added unless its key is None *)
init_providers_NotNone(tomtom_key, here_key) ==
    {DATA_SOURCE_OSM}
    \cup (IF tomtom_key # NoKey THEN {DATA_SOURCE_TOMTOM} ELSE {})
    \cup (IF here_key # NoKey THEN {DATA_SOURCE_HERE} ELSE {})

(* __init__: the keys of self.providers; `if tomtom_api_key:` is false for *)
(* None and for the empty string                                           *)
init_providers(tomtom_key, here_key) ==
    {DATA_SOURCE_OSM}
    \cup (IF tomtom_key \notin {NoKey, ""} THEN {DATA_SOURCE_TOMTOM} ELSE {})
    \cup (IF here_key \notin {NoKey, ""} THEN {DATA_SOURCE_HERE} ELSE {})

(* setup_subscriptions: the entities tracked with                          *)
(* async_track_state_change_event, whose unsubscribe callbacks             *)
(* the location source has reported the pair the entities show at setup    *)
(* and is delivering nothing                                               *)
NoFixes == [reported |-> {<<0, 0>>}, pending |-> <<>>]

(* _unsub_listeners holds                                                  *)
setup_subscriptions(has_speed_entity) ==
    {"latitude", "longitude"} \cup (IF has_speed_entity THEN {"speed"} ELSE {})

SetupKeys(primaries, provider_sets, unit_prefs, speed_entities, keys) ==
    /\ data_source \in primaries
    /\ tomtom_api_key \in keys
    /\ here_api_key \in keys
    /\ providers = init_providers(tomtom_api_key, here_api_key)
    /\ providers \in provider_sets
    /\ unit_preference \in unit_prefs
    /\ min_update_distance = MinDistance
    /\ speed_entity_id \in speed_entities
    /\ latitude = 0 /\ longitude = 0
    /\ last_api_latitude = latitude /\ last_api_longitude = longitude
    /\ cache = EmptyCache
    /\ lat_state = Entity(Absent, Num(0))
    /\ lon_state = Entity(Absent, Num(0))
    /\ speed_state = IF speed_entity_id THEN Num(0) ELSE Absent
    /\ now = 0
    /\ pc = "idle"
    /\ results = EmptyResults
    /\ pending = <<>>
    /\ refresh_requested = TRUE
    /\ cyc = NoCycle
    /\ surfaced = [read |-> FALSE, entry |-> NoneEntry]
    /\ last_motion = 0
    /\ ncycles = 0
    /\ entry_loaded = TRUE
    /\ unsub_listeners = setup_subscriptions(speed_entity_id)
    /\ fixes = NoFixes

(* the session with each key either None or set *)
Setup(primaries, provider_sets, unit_prefs, speed_entities) ==
    SetupKeys(primaries, provider_sets, unit_prefs, speed_entities,
              {NoKey, "secret"})

(* no helper is being called on its own *)
NoConversion == [speed |-> 0, from_unit |-> UNIT_KMH, to_unit |-> UNIT_KMH,
                 result |-> NoSpeed, back |-> NoSpeed, step |-> "none"]
NoOutcome == [raised |-> FALSE, kind |-> "", value |-> NoneEntry]
NoFetch == [provider |-> "", step |-> "none", attempt |-> 0, slept |-> <<>>,
            seen |-> <<>>, outcome |-> NoOutcome]
NoParse == [elements |-> <<>>, step |-> "none", distance |-> 0,
            result |-> NoneEntry]
NoCalls == conversion = NoConversion /\ fetch = NoFetch /\ parse = NoParse

(* the flags and coordinator.data as __init__ leaves them *)
Fresh ==
    /\ fallback_active = FALSE
    /\ active_provider_name = NoName
    /\ data = EmptyResults

(* ---------------------------------------------------------------------- *)
(* Movement trigger                                                       *)
(* ---------------------------------------------------------------------- *)
(* _on_location_change: reads both entities as they are now, whichever of  *)
(* the two changed.  async_request_refresh is recorded as a request that   *)
(* the coordinator of the host serves when no cycle is running.            *)
on_location_change(lat_entity, lon_entity) ==
    LET new_lat == get_coordinate_from_entity(lat_entity)
        new_lon == get_coordinate_from_entity(lon_entity)
    IN IF ~validate_coordinates(new_lat, new_lon)
       THEN UNCHANGED <<latitude, longitude, refresh_requested, last_motion>>
       ELSE /\ latitude' = new_lat.v
            /\ longitude' = new_lon.v
            /\ IF MovedEnough(calculate_distance2(last_api_latitude,
                                                  last_api_longitude,
                                                  new_lat.v, new_lon.v),
                              min_update_distance)
               THEN refresh_requested' = TRUE /\ last_motion' = now
               ELSE UNCHANGED <<refresh_requested, last_motion>>

(* the latitude entity changes state to one of `states`; its listener runs  *)
(* the callback                                                            *)
LatitudeChange(states) ==
    /\ \E s \in states :
          /\ s # lat_state
          /\ lat_state' = s
          /\ IF "latitude" \in unsub_listeners
             THEN on_location_change(s, lon_state)
             ELSE UNCHANGED <<latitude, longitude, refresh_requested,
                              last_motion>>
    /\ UNCHANGED <<config, calls, host, last_api_latitude, last_api_longitude,
                   fallback_active, active_provider_name, cache, data,
                   lon_state, speed_state, now, pc, results, pending,
                   cyc, surfaced, ncycles>>

(* the longitude entity changes state; its listener runs the callback *)
LongitudeChange(states) ==
    /\ \E s \in states :
          /\ s # lon_state
          /\ lon_state' = s
          /\ IF "longitude" \in unsub_listeners
             THEN on_location_change(lat_state, s)
             ELSE UNCHANGED <<latitude, longitude, refresh_requested,
                              last_motion>>
    /\ UNCHANGED <<config, calls, host, last_api_latitude, last_api_longitude,
                   fallback_active, active_provider_name, cache, data,
                   lat_state, speed_state, now, pc, results, pending,
                   cyc, surfaced, ncycles>>

(* The location source reports a pair through two entities, one for each   *)
(* coordinate: the host writes the latitude entity first and the longitude *)
(* entity after it, and runs the listener of an entity whose state changed *)
(* at once, before the other entity is written.                            *)
FixPairs == {<<x, y>> : x \in {0, MinDistance}, y \in {0, MinDistance}}

ReportLatitude ==
    /\ fixes.pending = <<>>
    /\ \E pair \in FixPairs :
          LET s == Entity(Absent, Num(pair[1]))
          IN /\ pair # <<lat_state.state.v, lon_state.state.v>>
             /\ fixes' = [reported |-> fixes.reported \cup {pair},
                          pending |-> pair]
             /\ lat_state' = s
             /\ IF s # lat_state /\ "latitude" \in unsub_listeners
                THEN on_location_change(s, lon_state)
                ELSE UNCHANGED <<latitude, longitude, refresh_requested,
                                 last_motion>>
    /\ UNCHANGED <<config, calls, entry_loaded, unsub_listeners,
                   last_api_latitude, last_api_longitude,
                   fallback_active, active_provider_name, cache, data,
                   lon_state, speed_state, now, pc, results, pending,
                   cyc, surfaced, ncycles>>

ReportLongitude ==
    /\ fixes.pending # <<>>
    /\ LET s == Entity(Absent, Num(fixes.pending[2]))
       IN /\ fixes' = [fixes EXCEPT !.pending = <<>>]
          /\ lon_state' = s
          /\ IF s # lon_state /\ "longitude" \in unsub_listeners
             THEN on_location_change(lat_state, s)
             ELSE UNCHANGED <<latitude, longitude, refresh_requested,
                              last_motion>>
    /\ UNCHANGED <<config, calls, entry_loaded, unsub_listeners,
                   last_api_latitude, last_api_longitude,
                   fallback_active, active_provider_name, cache, data,
                   lat_state, speed_state, now, pc, results, pending,
                   cyc, surfaced, ncycles>>

(* the speed entity changes state; _on_speed_change does nothing *)
SpeedChange(states) ==
    /\ speed_entity_id
    /\ \E s \in states : s # speed_state /\ speed_state' = s
    /\ UNCHANGED <<config, calls, host, session, lat_state, lon_state, now, cycle, history>>

(* time passes *)
Tick ==
    /\ now + TickStep <= MaxTime
    /\ now' = now + TickStep
    /\ UNCHANGED <<config, calls, host, session, lat_state, lon_state, speed_state,
                   cycle, history>>

(* RoadSpeedLimitsManualUpdateButton.async_press; the button exists once   *)
(* the first refresh has returned and until the platforms are unloaded     *)
ButtonPress ==
    /\ entry_loaded
    /\ data # EmptyResults
    /\ ~refresh_requested
    /\ refresh_requested' = TRUE
    /\ UNCHANGED <<config, calls, host, session, environment, pc, results, pending, history>>

(* RoadSpeedLimitsPollingSensor.is_on returns coordinator.polling_active;  *)
(* RoadSpeedLimitsCoordinator.__init__ sets no such attribute, passes      *)
(* update_interval=None to the host and starts no timer, so the read       *)
(* raises AttributeError in every state of a session                       *)
polling_active == "AttributeError"

(* the recurring timers a session owns: __init__ hands update_interval=None *)
(* to the host, and neither it, setup_subscriptions nor                    *)
(* _on_location_change starts a timer; _unsub_listeners holds state-change *)
(* subscriptions only                                                      *)
polling_timers == {}

(* ---------------------------------------------------------------------- *)
(* Fallback resolver                                                      *)
(* ---------------------------------------------------------------------- *)
(* the first source of fallback_order, the primary skipped, with data;     *)
(* "" when there is none                                                   *)
FirstFallbackWithData(rs, primary) ==
    LET found == SelectSeq(fallback_order,
                     LAMBDA source : source # primary /\ HasData(rs, source))
    IN IF found = <<>> THEN "" ELSE Head(found)

(* mutant: the resolver prefers the last usable source of the order *)
get_primary_data_source_Last(rs, primary) ==
    LET found == SelectSeq(fallback_order,
                     LAMBDA source : source # primary /\ HasData(rs, source))
    IN IF HasData(rs, primary) THEN primary
       ELSE IF found = <<>> THEN primary ELSE found[Len(found)]

(* mutant: when no entry has data the resolver returns the first entry of  *)
(* the order that exists, empty or not                                     *)
get_primary_data_source_AnyEntry(rs, primary) ==
    LET found == SelectSeq(fallback_order,
                     LAMBDA source : source # primary /\ HasData(rs, source))
        present == SelectSeq(fallback_order,
                     LAMBDA source : source # primary /\ source \in DOMAIN rs)
    IN IF HasData(rs, primary) THEN primary
       ELSE IF found # <<>> THEN Head(found)
       ELSE IF present # <<>> THEN Head(present)
       ELSE primary

(* get_primary_data: the source whose entry is returned *)
get_primary_data_source(rs, primary) ==
    IF HasData(rs, primary) THEN primary
    ELSE IF FirstFallbackWithData(rs, primary) = "" THEN primary
    ELSE FirstFallbackWithData(rs, primary)

(* mutant: a read that finds fallback_active set takes it for the mark of  *)
(* a resolved read, returns the primary's entry and clears the flag        *)
GetPrimaryData_FlagFirst ==
    /\ entry_loaded
    /\ data # EmptyResults
    /\ LET source == IF fallback_active THEN data_source
                     ELSE get_primary_data_source(data, data_source)
           fell_back == /\ ~HasData(data, data_source)
                        /\ HasData(data, source)
       IN /\ surfaced' = [read |-> TRUE, entry |-> DataGet(data, source)]
          /\ fallback_active' = fell_back
          /\ active_provider_name' =
                IF fell_back THEN DATA_SOURCE_NAMES(source)
                ELSE active_provider_name
    /\ UNCHANGED <<config, calls, host, latitude, longitude, last_api_latitude,
                   last_api_longitude, cache, data, environment, cycle,
                   cyc, last_motion, ncycles>>

(* get_primary_data, as the sensor properties call it on every read, while *)
(* the sensor platform is loaded                                           *)
GetPrimaryData ==
    /\ entry_loaded
    /\ data # EmptyResults
    /\ LET source == get_primary_data_source(data, data_source)
           fell_back == /\ ~HasData(data, data_source)
                        /\ HasData(data, source)
       IN /\ surfaced' = [read |-> TRUE, entry |-> DataGet(data, source)]
          /\ fallback_active' = IF fell_back THEN TRUE ELSE fallback_active
          /\ active_provider_name' =
                IF fell_back THEN DATA_SOURCE_NAMES(source)
                ELSE active_provider_name
    /\ UNCHANGED <<config, calls, host, latitude, longitude, last_api_latitude,
                   last_api_longitude, cache, data, environment, cycle,
                   cyc, last_motion, ncycles>>

(* ---------------------------------------------------------------------- *)
(* Update orchestrator: one refresh cycle, one action per stretch of code *)
(* between two awaits                                                     *)
(* ---------------------------------------------------------------------- *)
Unread == [read |-> FALSE, entry |-> NoneEntry]

(* mutant: the cache is bypassed only above the threshold *)
use_cache_Above ==
    ~(/\ speed_entity_id
      /\ speed_state.k = "num"
      /\ speed_state.v > CACHE_SPEED_THRESHOLD)

(* mutant: the cache is eligible only on a numeric reading below the       *)
(* threshold                                                               *)
use_cache_NumericOnly ==
    speed_entity_id
       => (speed_state.k = "num" /\ speed_state.v < CACHE_SPEED_THRESHOLD)

(* use_cache of _async_update_data *)
use_cache ==
    ~(/\ speed_entity_id
      /\ speed_state.k = "num"
      /\ speed_state.v >= CACHE_SPEED_THRESHOLD)

(* the current coordinate is the one the running cycle started at, which   *)
(* the cycle's first statement copied to the last_api pair, or in its cell *)
AtStart == latitude = last_api_latitude' /\ longitude = last_api_longitude'
InStartCell == get_cache_key(latitude, longitude) =
               get_cache_key(last_api_latitude', last_api_longitude')

(* `return results` after self._set_cached_data(self.latitude,             *)
(* self.longitude, results); the host stores the return value in           *)
(* coordinator.data                                                        *)
Finish(rs, c, tr) ==
    /\ cache' = set_cached_data(c, latitude, longitude, rs, now)
    /\ data' = rs
    /\ pc' = "idle"
    /\ results' = rs
    /\ pending' = <<>>
    /\ surfaced' = Unread
    /\ cyc' = [tr EXCEPT !.status = "returned",
                         !.steady = (@ /\ AtStart),
                         !.same_cell = (@ /\ InStartCell)]

(* the fallback loop from its head: query the next of available_fallbacks  *)
(* at the current coordinate and await it, or leave the loop               *)
NextFallback(rs, c, remaining, tr) ==
    IF remaining = <<>>
    THEN Finish(rs, c, tr)
    ELSE /\ cache' = c
         /\ pc' = "fallback"
         /\ results' = rs
         /\ pending' = remaining
         /\ cyc' = [tr EXCEPT !.queried = Append(@, Head(remaining)),
                              !.steady = (@ /\ AtStart),
                              !.same_cell = (@ /\ InStartCell)]
         /\ UNCHANGED <<data, surfaced>>

(* an exception leaves _async_update_data *)
Raise(c, tr) ==
    /\ cache' = c
    /\ pc' = "idle"
    /\ results' = EmptyResults
    /\ pending' = <<>>
    /\ cyc' = [tr EXCEPT !.status = "raised"]
    /\ UNCHANGED <<data, surfaced, active_provider_name>>

(* mutant: a successful primary leaves fallback_active as it was *)
AfterPrimary_KeepFlag(rs, c, tr) ==
    IF HasData(rs, data_source)
    THEN /\ UNCHANGED fallback_active
         /\ active_provider_name' = DATA_SOURCE_NAMES(data_source)
         /\ Finish(rs, c, tr)
    ELSE /\ fallback_active' = TRUE
         /\ UNCHANGED active_provider_name
         /\ NextFallback(rs, c, available_fallbacks(providers, data_source), tr)

(* step 2 and 3 of _async_update_data, once results[data_source] is set *)
AfterPrimary(rs, c, tr) ==
    IF HasData(rs, data_source)
    THEN /\ fallback_active' = FALSE
         /\ active_provider_name' = DATA_SOURCE_NAMES(data_source)
         /\ Finish(rs, c, tr)
    ELSE /\ fallback_active' = TRUE
         /\ UNCHANGED active_provider_name
         /\ NextFallback(rs, c, available_fallbacks(providers, data_source), tr)

(* the outcomes of one provider query: an exception, or a result *)
QueryOutcomesOf(source, limits) ==
    {[raised |-> TRUE, kind |-> k, value |-> NoneEntry] : k \in FetchErrors}
    \cup {[raised |-> FALSE, kind |-> "", value |-> d] :
              d \in FetchReturnsOf(source, limits)}

QueryOutcomes(source) == QueryOutcomesOf(source, ReportedLimits)

(* mutant: a cache hit stores the entry again, with the time of the hit *)
StartCycleWithin_TouchOnHit(limit) ==
    /\ pc = "idle"
    /\ refresh_requested
    /\ ncycles < limit
    /\ ncycles' = ncycles + 1
    /\ refresh_requested' = FALSE
    /\ last_api_latitude' = latitude
    /\ last_api_longitude' = longitude
    /\ LET key == get_cache_key(latitude, longitude)
           found == use_cache /\ key \in DOMAIN cache
           hit == found /\ CacheFresh(cache[key].timestamp, now)
           cache1 == IF found /\ ~hit THEN CacheDel(cache, key) ELSE cache
           tr == [NoCycle EXCEPT !.status = "running"]
       IN IF hit /\ cache[key].data # EmptyResults
          THEN /\ data' = cache[key].data
               /\ surfaced' = Unread
               /\ cyc' = [tr EXCEPT !.src = "cache", !.status = "returned"]
               /\ cache' = set_cached_data(cache, latitude, longitude,
                                           cache[key].data, now)
               /\ UNCHANGED <<pc, results, pending, fallback_active,
                              active_provider_name>>
          ELSE IF data_source \in providers
          THEN /\ cache' = cache1
               /\ pc' = "primary"
               /\ results' = EmptyResults
               /\ pending' = <<>>
               /\ cyc' = [tr EXCEPT !.src = "fetch",
                                    !.queried = <<data_source>>]
               /\ UNCHANGED <<data, surfaced, fallback_active,
                              active_provider_name>>
          ELSE IF Catches("KeyError")
          THEN AfterPrimary(Put(EmptyResults, data_source, NoneEntry), cache1,
                            [tr EXCEPT !.src = "fetch",
                                       !.raw = Put(@, data_source, NoneEntry)])
          ELSE /\ Raise(cache1, [tr EXCEPT !.src = "fetch"])
               /\ UNCHANGED fallback_active
    /\ UNCHANGED <<config, calls, host, latitude, longitude, environment, last_motion>>

(* _async_update_data from its start to the await on the primary provider, *)
(* for a session that runs at most `limit` cycles                          *)
StartCycleWithin(limit) ==
    /\ pc = "idle"
    /\ refresh_requested
    /\ ncycles < limit
    /\ ncycles' = ncycles + 1
    /\ refresh_requested' = FALSE
    /\ last_api_latitude' = latitude
    /\ last_api_longitude' = longitude
    /\ LET key == get_cache_key(latitude, longitude)
           found == use_cache /\ key \in DOMAIN cache
           hit == found /\ CacheFresh(cache[key].timestamp, now)
           cache1 == IF found /\ ~hit THEN CacheDel(cache, key) ELSE cache
           tr == [NoCycle EXCEPT !.status = "running"]
       IN IF hit /\ cache[key].data # EmptyResults
          THEN /\ data' = cache[key].data
               /\ surfaced' = Unread
               /\ cyc' = [tr EXCEPT !.src = "cache", !.status = "returned"]
               /\ UNCHANGED <<cache, pc, results, pending, fallback_active,
                              active_provider_name>>
          ELSE IF data_source \in providers
          THEN /\ cache' = cache1
               /\ pc' = "primary"
               /\ results' = EmptyResults
               /\ pending' = <<>>
               /\ cyc' = [tr EXCEPT !.src = "fetch",
                                    !.queried = <<data_source>>]
               /\ UNCHANGED <<data, surfaced, fallback_active,
                              active_provider_name>>
          ELSE IF Catches("KeyError")
          THEN AfterPrimary(Put(EmptyResults, data_source, NoneEntry), cache1,
                            [tr EXCEPT !.src = "fetch",
                                       !.raw = Put(@, data_source, NoneEntry)])
          ELSE /\ Raise(cache1, [tr EXCEPT !.src = "fetch"])
               /\ UNCHANGED fallback_active
    /\ UNCHANGED <<config, calls, host, latitude, longitude, environment, last_motion>>

StartCycle == StartCycleWithin(MaxCycles)

(* the primary provider's query ends; on to the next await or the return;  *)
(* the provider knows the limits `limits`                                  *)
PrimaryReturnsOf(limits) ==
    /\ pc = "primary"
    /\ UNCHANGED <<config, calls, host, latitude, longitude, last_api_latitude,
                   last_api_longitude, environment, refresh_requested,
                   last_motion, ncycles>>
    /\ \E o \in QueryOutcomesOf(data_source, limits) :
          IF o.raised
          THEN IF Catches(o.kind)
               THEN AfterPrimary(Put(results, data_source, NoneEntry), cache,
                                 [cyc EXCEPT !.raw = Put(@, data_source, NoneEntry)])
               ELSE Raise(cache, cyc) /\ UNCHANGED fallback_active
          ELSE AfterPrimary(Put(results, data_source,
                                apply_unit_conversion(o.value, unit_preference)),
                            cache,
                            [cyc EXCEPT !.raw = Put(@, data_source, o.value)])

PrimaryReturns == PrimaryReturnsOf(ReportedLimits)

(* a fallback provider's query ends *)
FallbackReturnsOf(limits) ==
    /\ pc = "fallback"
    /\ UNCHANGED <<config, calls, host, latitude, longitude, last_api_latitude,
                   last_api_longitude, fallback_active, environment,
                   refresh_requested, last_motion, ncycles>>
    /\ LET fallback_source == Head(pending)
       IN \E o \in QueryOutcomesOf(fallback_source, limits) :
          IF o.raised
          THEN IF Catches(o.kind)
               THEN /\ NextFallback(Put(results, fallback_source, NoneEntry),
                                    cache, Tail(pending),
                                    [cyc EXCEPT !.raw = Put(@, fallback_source,
                                                            NoneEntry)])
                    /\ UNCHANGED active_provider_name
               ELSE Raise(cache, cyc)
          ELSE LET rs == Put(results, fallback_source,
                             apply_unit_conversion(o.value, unit_preference))
                   tr == [cyc EXCEPT !.raw = Put(@, fallback_source, o.value)]
               IN IF HasData(rs, fallback_source)
                  THEN /\ active_provider_name' =
                              DATA_SOURCE_NAMES(fallback_source)
                       /\ Finish(rs, cache, tr)
                  ELSE /\ UNCHANGED active_provider_name
                       /\ NextFallback(rs, cache, Tail(pending), tr)

FallbackReturns == FallbackReturnsOf(ReportedLimits)

(* ---------------------------------------------------------------------- *)
(* Specifications                                                         *)
(* ---------------------------------------------------------------------- *)
MovingLatStates == {Entity(Absent, Num(x)) : x \in {0, MinDistance}}

(* The session of every configuration without a speed source, the clock    *)
(* standing: refresh cycles, fallback and reads while the latitude moves   *)
(* between two cache cells.                                                *)
Init == Setup(Providers, ProviderSets, Units, {FALSE}) /\ Fresh /\ NoCalls

Next ==
    \/ LatitudeChange(MovingLatStates)
    \/ ButtonPress
    \/ GetPrimaryData
    \/ StartCycle
    \/ PrimaryReturns
    \/ FallbackReturns

Spec == Init /\ [][Next]_vars

(* The same session when every provider query ends, with a result or an    *)
(* exception: the awaits of _async_update_data are not left hanging.       *)
SpecLive ==
    Init /\ [][Next]_vars /\ WF_vars(PrimaryReturns) /\ WF_vars(FallbackReturns)

(* The session with a speed source: OSM is primary and HERE may be         *)
(* configured.                                                             *)
InitClock ==
    Setup({DATA_SOURCE_OSM}, {{DATA_SOURCE_OSM}, {DATA_SOURCE_OSM, DATA_SOURCE_HERE}},
          {UNIT_MPH}, {TRUE})
    /\ Fresh
    /\ NoCalls

(* The session with a speed source, a running clock and OSM alone, moving  *)
(* between two cache cells; no collaborator reads the result.              *)
InitClockOsm ==
    Setup({DATA_SOURCE_OSM}, {{DATA_SOURCE_OSM}}, {UNIT_MPH}, {TRUE})
    /\ Fresh
    /\ NoCalls

NextClock ==
    \/ LatitudeChange(MovingLatStates)
    \/ SpeedChange({Num(CACHE_SPEED_THRESHOLD - 1), Num(CACHE_SPEED_THRESHOLD),
                    Unavailable})
    \/ Tick
    \/ ButtonPress
    \/ StartCycle
    \/ PrimaryReturns

SpecClock == InitClockOsm /\ [][NextClock]_vars

(* The movement trigger under every shape of observation, with OSM alone   *)
(* configured: observations before, during and after the cycles, which     *)
(* start wherever the observations have taken the session.                 *)
InitMovement ==
    Setup({DATA_SOURCE_OSM}, {{DATA_SOURCE_OSM}}, {UNIT_MPH}, {FALSE}) /\ Fresh
    /\ NoCalls

NextMovement ==
    \/ LatitudeChange(LatEntityStates)
    \/ LongitudeChange(LonEntityStates)
    \/ StartCycleWithin(MaxCyclesMovement)
    \/ PrimaryReturns

SpecMovement == InitMovement /\ [][NextMovement]_vars

(* The movement trigger when the location source reports pairs through two *)
(* entities: OSM alone, cycles starting wherever the deliveries have taken *)
(* the session.                                                            *)
NextFixes ==
    \/ ReportLatitude
    \/ ReportLongitude
    \/ StartCycleWithin(MaxCyclesMovement)
    \/ PrimaryReturns

SpecFixes == InitMovement /\ [][NextFixes]_vars

(* The fallback resolver on every ResultSet: a session that holds any      *)
(* ResultSet over its configured providers (the primary, when it is not    *)
(* configured, has the None entry of its failed lookup), with any earlier  *)
(* value of the status flags.                                              *)
Entries == {NoneEntry, Result(NoSpeed, UNIT_KMH),
            Result(50, UNIT_MPH), Result(80, UNIT_KMH)}

ResultSets(configured, primary) ==
    UNION {{rs \in [d -> Entries] :
                primary \in d /\ primary \notin configured
                    => rs[primary] = NoneEntry} :
           d \in SUBSET (configured \cup {primary})}

InitResolver ==
    /\ Setup(Providers, ProviderSets, {UNIT_MPH}, {FALSE})
    /\ data \in ResultSets(providers, data_source) \ {EmptyResults}
    /\ fallback_active \in BOOLEAN
    /\ active_provider_name \in
          {NoName} \cup {DATA_SOURCE_NAMES(p) : p \in providers}
    /\ NoCalls

NextResolver == GetPrimaryData

SpecResolver == InitResolver /\ [][NextResolver]_vars

(* The status flags over three cycles, so that a cycle can be served from  *)
(* the cache entry of a cell the session left and came back to: OSM is     *)
(* primary, HERE is configured, no speed source.                           *)
InitFlags ==
    Setup({DATA_SOURCE_OSM}, {{DATA_SOURCE_OSM, DATA_SOURCE_HERE}},
          {UNIT_MPH}, {FALSE})
    /\ Fresh
    /\ NoCalls

NextFlags ==
    \/ LatitudeChange(MovingLatStates)
    \/ GetPrimaryData
    \/ StartCycleWithin(MaxCyclesFlags)
    \/ PrimaryReturns
    \/ FallbackReturns

SpecFlags == InitFlags /\ [][NextFlags]_vars

(* helpers.convert_speed called on its own: on every speed up to MaxSpeed  *)
(* and every pair of units, and then back again on its own result.         *)
ConvertSpeed ==
    /\ conversion.step = "args"
    /\ conversion' = [conversion EXCEPT
            !.result = convert_speed(conversion.speed, conversion.from_unit,
                                     conversion.to_unit),
            !.step = "converted"]
    /\ UNCHANGED <<config, host, session, environment, cycle, history, fetch,
                   parse>>

ConvertBack ==
    /\ conversion.step = "converted"
    /\ conversion' = [conversion EXCEPT
            !.back = convert_speed(conversion.result, conversion.to_unit,
                                   conversion.from_unit),
            !.step = "back"]
    /\ UNCHANGED <<config, host, session, environment, cycle, history, fetch,
                   parse>>

InitConvert ==
    /\ Setup({DATA_SOURCE_OSM}, {{DATA_SOURCE_OSM}}, {UNIT_MPH}, {FALSE})
    /\ Fresh
    /\ conversion \in {[NoConversion EXCEPT !.speed = x, !.from_unit = f,
                                             !.to_unit = t, !.step = "args"] :
                           x \in 0..MaxSpeed, f \in Units, t \in Units}
    /\ fetch = NoFetch
    /\ parse = NoParse

NextConvert == ConvertSpeed \/ ConvertBack

SpecConvert == InitConvert /\ [][NextConvert]_vars

(* The session under every shape of the two API keys. *)
InitKeys ==
    /\ SetupKeys(Providers, ProviderSets, {UNIT_MPH}, {FALSE}, ApiKeys)
    /\ Fresh
    /\ NoCalls

SpecKeys == InitKeys /\ [][Next]_vars

(* The manual refresh: the session of InitClock standing still, so that    *)
(* every cycle after the first refresh of setup is one the button asked    *)
(* for.                                                                    *)
NextButton ==
    \/ SpeedChange({Num(CACHE_SPEED_THRESHOLD - 1), Num(CACHE_SPEED_THRESHOLD),
                    Unavailable})
    \/ Tick
    \/ ButtonPress
    \/ StartCycle
    \/ PrimaryReturns
    \/ FallbackReturns

SpecButton == InitClock /\ [][NextButton]_vars

(* The stored units: OSM primary with or without HERE, either unit         *)
(* preference, providers that report limits in both units.                 *)
InitUnits ==
    Setup({DATA_SOURCE_OSM},
          {{DATA_SOURCE_OSM}, {DATA_SOURCE_OSM, DATA_SOURCE_HERE}},
          Units, {FALSE})
    /\ Fresh
    /\ NoCalls

NextUnits ==
    \/ LatitudeChange(MovingLatStates)
    \/ StartCycle
    \/ PrimaryReturnsOf(MixedLimits)
    \/ FallbackReturnsOf(MixedLimits)

SpecUnits == InitUnits /\ [][NextUnits]_vars

(* Cache eligibility: OSM alone, with and without a speed source, whose    *)
(* state takes every shape while the button asks for refreshes; the clock  *)
(* stands, so every cache entry is young.                                  *)
InitSpeed ==
    Setup({DATA_SOURCE_OSM}, {{DATA_SOURCE_OSM}}, {UNIT_MPH}, BOOLEAN)
    /\ Fresh
    /\ NoCalls

NextSpeed ==
    \/ SpeedChange(SpeedStates \cup {Unknown})
    \/ ButtonPress
    \/ StartCycleWithin(MaxCyclesFlags)
    \/ PrimaryReturns

SpecSpeed == InitSpeed /\ [][NextSpeed]_vars

(* async_unload_entry: the host unloads the platforms and the session is   *)
(* dropped from hass.data; when the host reports no success nothing        *)
(* changes.  Nothing calls the callbacks held in _unsub_listeners.         *)
(* Whether the host still serves a refresh that is requested afterwards is *)
(* the host's matter: StartCycle stays possible and is never forced.       *)
async_unload_entry ==
    /\ entry_loaded
    /\ entry_loaded' = FALSE
    /\ UNCHANGED <<config, calls, unsub_listeners, fixes, session,
                   environment, cycle, history>>

(* The session that is torn down at any moment while the latitude moves    *)
(* between two cache cells: OSM alone, no speed source.                    *)
NextUnload ==
    \/ LatitudeChange(MovingLatStates)
    \/ ButtonPress
    \/ GetPrimaryData
    \/ StartCycle
    \/ PrimaryReturns
    \/ async_unload_entry

SpecUnload == InitMovement /\ [][NextUnload]_vars

(* ---------------------------------------------------------------------- *)
(* Providers: fetch_speed_limit called on its own                         *)
(* ---------------------------------------------------------------------- *)
(* What the HTTP call of one attempt does: a transport error, or a status  *)
(* and a body.  Bodies of a 200 response by shape: not JSON at all, a JSON *)
(* value that is not an object, an object whose list of roads is a number, *)
(* a road whose speed limit is text that is not a number, no road, a road  *)
(* with a limit of 55 mph.                                                 *)
retries == 3
transient_statuses == {429, 502, 503, 504}

MalformedBodies == {"invalid_json", "not_object", "list_not_list"}
Bodies == MalformedBodies \cup {"bad_limit", "no_roads", "limit"}

Statuses(source) ==
    CASE source = DATA_SOURCE_OSM -> transient_statuses \cup {404, 500}
      [] source = DATA_SOURCE_TOMTOM -> {403, 429}
      [] source = DATA_SOURCE_HERE -> {401, 500}

Responses(source) ==
    {[err |-> e, status |-> 0, body |-> ""] : e \in {"TimeoutError", "ClientError"}}
    \cup {[err |-> "", status |-> st, body |-> ""] : st \in Statuses(source)}
    \cup {[err |-> "", status |-> 200, body |-> b] : b \in Bodies}

Raised(kind) == [raised |-> TRUE, kind |-> kind, value |-> NoneEntry]
Returned(value) == [raised |-> FALSE, kind |-> "", value |-> value]

(* `await response.json()` and OSMSpeedLimitProvider._parse_osm_response:  *)
(* nothing is caught in the parser; text that _parse_speed_value cannot    *)
(* read gives (None, "km/h")                                               *)
parse_osm_response(body) ==
    CASE body = "invalid_json" -> Raised("ValueError")
      [] body = "not_object" -> Raised("AttributeError")
      [] body = "list_not_list" -> Raised("TypeError")
      [] body = "bad_limit" -> Returned(Result(NoSpeed, UNIT_KMH))
      [] body = "no_roads" -> Returned(EmptyResult(DATA_SOURCE_OSM))
      [] body = "limit" -> Returned(Result(55, UNIT_MPH))

(* mutant: TomTom's parser catches nothing *)
parse_tomtom_response_Strict(body) ==
    CASE body = "invalid_json" -> Raised("ValueError")
      [] body = "not_object" -> Raised("AttributeError")
      [] body = "list_not_list" -> Raised("TypeError")
      [] body = "bad_limit" -> Raised("ValueError")
      [] body = "no_roads" -> Raised("KeyError")
      [] body = "limit" -> Returned(Result(55, UNIT_MPH))

(* `await response.json()` and _parse_tomtom_response: KeyError and        *)
(* TypeError are caught and answered with the empty result; the ValueError *)
(* of float() is passed over                                               *)
parse_tomtom_response(body) ==
    CASE body = "invalid_json" -> Raised("ValueError")
      [] body = "not_object" -> Raised("AttributeError")
      [] body = "list_not_list" -> Returned(EmptyResult(DATA_SOURCE_TOMTOM))
      [] body = "bad_limit" -> Returned(Result(NoSpeed, UNIT_KMH))
      [] body = "no_roads" -> Returned(EmptyResult(DATA_SOURCE_TOMTOM))
      [] body = "limit" -> Returned(Result(55, UNIT_MPH))

(* `await response.json()` and _parse_here_response: KeyError, TypeError   *)
(* and IndexError are caught and answered with the empty result            *)
parse_here_response(body) ==
    CASE body = "invalid_json" -> Raised("ValueError")
      [] body = "not_object" -> Raised("AttributeError")
      [] body = "list_not_list" -> Returned(EmptyResult(DATA_SOURCE_HERE))
      [] body = "bad_limit" -> Returned(Result(NoSpeed, UNIT_MPH))
      [] body = "no_roads" -> Returned(EmptyResult(DATA_SOURCE_HERE))
      [] body = "limit" -> Returned(Result(55, UNIT_MPH))

(* mutant: every backoff is two seconds *)
backoff_Constant(attempt) == 2

(* asyncio.sleep(2 * (attempt + 1)) *)
backoff(attempt) == 2 * (attempt + 1)

(* one pass of the retry loop of OSMSpeedLimitProvider.fetch_speed_limit   *)
(* up to its next await or its end.  The ClientError raised for a status   *)
(* that is not 200 is raised inside the try and caught by the loop's own   *)
(* except clause like a transport error.                                   *)
OsmAttempt ==
    /\ fetch.provider = DATA_SOURCE_OSM
    /\ fetch.step = "request"
    /\ \E r \in Responses(DATA_SOURCE_OSM) :
          LET f == [fetch EXCEPT !.seen = Append(@, r)]
          IN IF r.err = "" /\ r.status = 200
             THEN fetch' = [f EXCEPT !.step = "done",
                                     !.outcome = parse_osm_response(r.body)]
             ELSE IF fetch.attempt < retries - 1
             THEN fetch' = [f EXCEPT !.step = "sleep",
                                     !.slept = Append(@, backoff(fetch.attempt))]
             ELSE fetch' = [f EXCEPT !.step = "done",
                                     !.outcome = Raised("ClientError")]
    /\ UNCHANGED <<config, host, session, environment, cycle, history,
                   conversion, parse>>

(* the sleep ends: `continue` *)
OsmWakeUp ==
    /\ fetch.provider = DATA_SOURCE_OSM
    /\ fetch.step = "sleep"
    /\ fetch' = [fetch EXCEPT !.step = "request", !.attempt = @ + 1]
    /\ UNCHANGED <<config, host, session, environment, cycle, history,
                   conversion, parse>>

(* TomTomSpeedLimitProvider.fetch_speed_limit, the key being configured *)
TomTomFetch ==
    /\ fetch.provider = DATA_SOURCE_TOMTOM
    /\ fetch.step = "request"
    /\ \E r \in Responses(DATA_SOURCE_TOMTOM) :
          fetch' = [fetch EXCEPT
              !.seen = Append(@, r),
              !.step = "done",
              !.outcome = IF r.err # "" THEN Raised(r.err)
                          ELSE IF r.status # 200 THEN Raised("ClientError")
                          ELSE parse_tomtom_response(r.body)]
    /\ UNCHANGED <<config, host, session, environment, cycle, history,
                   conversion, parse>>

(* HERESpeedLimitProvider.fetch_speed_limit, the key being configured *)
HereFetch ==
    /\ fetch.provider = DATA_SOURCE_HERE
    /\ fetch.step = "request"
    /\ \E r \in Responses(DATA_SOURCE_HERE) :
          fetch' = [fetch EXCEPT
              !.seen = Append(@, r),
              !.step = "done",
              !.outcome = IF r.err # "" THEN Raised(r.err)
                          ELSE IF r.status # 200 THEN Raised("ClientError")
                          ELSE parse_here_response(r.body)]
    /\ UNCHANGED <<config, host, session, environment, cycle, history,
                   conversion, parse>>

InitFetch ==
    /\ Setup({DATA_SOURCE_OSM}, {Providers}, {UNIT_MPH}, {FALSE})
    /\ Fresh
    /\ conversion = NoConversion
    /\ parse = NoParse
    /\ fetch \in {[NoFetch EXCEPT !.provider = p, !.step = "request"] :
                     p \in providers}

NextFetch == OsmAttempt \/ OsmWakeUp \/ TomTomFetch \/ HereFetch

SpecFetch == InitFetch /\ [][NextFetch]_vars

(* ---------------------------------------------------------------------- *)
(* OSM nearest-match selection: _parse_osm_response called on its own     *)
(* ---------------------------------------------------------------------- *)
(* An element of the response: the text of its maxspeed tag ("" when it    *)
(* has none), and whether the parser finds a point for it (a node with lat *)
(* and lon, a way with nodes, lat and lon) and how many metres from the    *)
(* query point that is.                                                    *)
Infinity == 1000000

MaxspeedTags == {"", "50", "30 mph", "signals", "none"}

Elements ==
    {[maxspeed |-> t, located |-> FALSE, metres |-> 0] : t \in MaxspeedTags}
    \cup {[maxspeed |-> t, located |-> TRUE, metres |-> d] :
              t \in MaxspeedTags, d \in {5, 50}}

RECURSIVE SeqsUpTo(_, _)
SeqsUpTo(S, n) ==
    IF n = 0 THEN {<<>>}
    ELSE LET shorter == SeqsUpTo(S, n - 1)
         IN shorter \cup {Append(q, e) : q \in shorter, e \in S}

(* _parse_speed_value: "none" and "unlimited" give (None, "km/h"); a       *)
(* number with "mph" is in mph; a bare number is in the preferred unit;    *)
(* text float() rejects gives (None, "km/h")                               *)
parse_speed_value(maxspeed, unit_pref) ==
    CASE maxspeed = "none" -> Result(NoSpeed, UNIT_KMH)
      [] maxspeed = "30 mph" -> Result(30, UNIT_MPH)
      [] maxspeed = "50" -> Result(50, unit_pref)
      [] OTHER -> Result(NoSpeed, UNIT_KMH)

(* the distance of an element: float('inf') without a point *)
element_distance(e) == IF e.located THEN e.metres ELSE Infinity

(* `if maxspeed:` the elements that enter roads_with_distance, in order *)
roads_with_distance(elements) ==
    SelectSeq(elements, LAMBDA e : e.maxspeed # "")

(* mutant: the list is not sorted *)
closest_road_First(roads) == roads[1]

(* roads_with_distance.sort(key=distance)[0]: the sort is stable, so the   *)
(* first road of the least distance                                        *)
closest_road(roads) ==
    LET i == CHOOSE i \in 1..Len(roads) :
                /\ \A j \in 1..Len(roads) :
                      element_distance(roads[j]) >= element_distance(roads[i])
                /\ \A j \in 1..(i - 1) :
                      element_distance(roads[j]) > element_distance(roads[i])
    IN roads[i]

(* _parse_osm_response for a preferred unit: the step to "done" with the   *)
(* SpeedLimitData returned, whose distance is None (Infinity here) for a   *)
(* road without a point                                                    *)
ParseOsm ==
    /\ parse.step = "args"
    /\ LET roads == roads_with_distance(parse.elements)
       IN IF parse.elements = <<>> \/ roads = <<>>
          THEN parse' = [parse EXCEPT !.step = "done",
                                      !.distance = Infinity,
                                      !.result = EmptyResult(DATA_SOURCE_OSM)]
          ELSE LET road == closest_road(roads)
               IN parse' = [parse EXCEPT
                      !.step = "done",
                      !.distance = element_distance(road),
                      !.result = parse_speed_value(road.maxspeed,
                                                   unit_preference)]
    /\ UNCHANGED <<config, host, session, environment, cycle, history,
                   conversion, fetch>>

InitParse ==
    /\ Setup({DATA_SOURCE_OSM}, {{DATA_SOURCE_OSM}}, Units, {FALSE})
    /\ Fresh
    /\ conversion = NoConversion
    /\ fetch = NoFetch
    /\ parse \in {[NoParse EXCEPT !.elements = q, !.step = "args"] :
                     q \in SeqsUpTo(Elements, MaxElements)}

NextParse == ParseOsm

SpecParse == InitParse /\ [][NextParse]_vars

(* ---------------------------------------------------------------------- *)
(* Properties                                                             *)
(* ---------------------------------------------------------------------- *)

(* C1: when the primary's entry is missing, None or without a speed_limit  *)
(* and another provider's entry has one, get_primary_data returns the      *)
(* entry of the first such provider in the order HERE, TomTom, OSM, sets   *)
(* fallback_active and records that provider as the active provider.       *)
C1_FallbackResolution ==
    LET first ==
          IF data_source # "here" /\ HasData(data, "here") THEN "here"
          ELSE IF data_source # "tomtom" /\ HasData(data, "tomtom") THEN "tomtom"
          ELSE IF data_source # "osm" /\ HasData(data, "osm") THEN "osm"
          ELSE ""
    IN (surfaced.read /\ ~HasData(data, data_source) /\ first # "")
          => /\ surfaced.entry = data[first]
             /\ fallback_active
             /\ active_provider_name = DATA_SOURCE_NAMES(first)

(* the example of the specification: {HERE: None, TomTom: 50 mph,          *)
(* OSM: 80 km/h} with primary HERE has been read as the TomTom entry       *)
C1_Witness ==
    /\ surfaced.read
    /\ data_source = "here"
    /\ data = [p \in Providers |->
                 CASE p = "here" -> NoneEntry
                   [] p = "tomtom" -> Result(50, "mph")
                   [] p = "osm" -> Result(80, "km/h")]
    /\ surfaced.entry = Result(50, "mph")
    /\ fallback_active
    /\ active_provider_name = "TomTom"

(* a cycle has fetched with primary OSM yielding no speed_limit and HERE   *)
(* returning 55 mph, and the result has been read since                    *)
C2_Case ==
    /\ pc = "idle"
    /\ cyc.status = "returned"
    /\ cyc.src = "fetch"
    /\ data_source = "osm"
    /\ "osm" \in DOMAIN cyc.raw
    /\ cyc.raw["osm"].speed_limit = NoSpeed
    /\ "here" \in DOMAIN cyc.raw
    /\ cyc.raw["here"] = Result(55, "mph")
    /\ surfaced.read

(* C2 as stated: after a cycle with primary OSM without data and HERE      *)
(* returning 55 mph, the resolver surfaces 55 mph, fallback-active is true *)
(* and the active provider is "HERE".                                      *)
C2_AsStated ==
    C2_Case => /\ surfaced.entry = Result(55, "mph")
               /\ fallback_active
               /\ active_provider_name = "HERE"

(* C2 amended: the resolver surfaces HERE's limit in the preferred unit    *)
(* (55 mph, or 89 km/h under a km/h preference), fallback-active is true   *)
(* and the active provider is HERE's display name "HERE Maps".             *)
C2_EndToEnd ==
    C2_Case => /\ surfaced.entry = IF unit_preference = "mph"
                                   THEN Result(55, "mph")
                                   ELSE Result(89, "km/h")
               /\ fallback_active
               /\ active_provider_name = "HERE Maps"

C2_Witness ==
    /\ C2_Case
    /\ unit_preference = "mph"
    /\ surfaced.entry = Result(55, "mph")
    /\ active_provider_name = "HERE Maps"

(* C3: a cycle that starts with a speed reading below 16 km/h and a cache  *)
(* entry younger than 300 s for the cell of the current coordinate returns *)
(* that entry's ResultSet and queries no provider; one that starts with a  *)
(* reading of 16 km/h or more queries the providers.                       *)
C3_CacheGate ==
    [][(ncycles' = ncycles + 1 /\ speed_entity_id /\ speed_state.k = "num")
        => LET key == get_cache_key(latitude, longitude)
               young == /\ key \in DOMAIN cache
                        /\ now - cache[key].timestamp < 300
           IN /\ (speed_state.v < 16 /\ young)
                    => /\ data' = cache[key].data
                       /\ cyc'.queried = <<>>
                       /\ pc' = "idle"
              /\ speed_state.v >= 16
                    => /\ cyc'.queried # <<>>
                       /\ pc' # "idle"]_vars

(* a second cycle was served from the cache at 15 km/h *)
C3_Witness ==
    /\ ncycles >= 2
    /\ cyc.src = "cache"
    /\ cyc.queried = <<>>
    /\ speed_state = Num(15)
    /\ data # EmptyResults

(* C4: a valid location observation requests a refresh if and only if its  *)
(* distance from the last fetch coordinate is >= min_update_distance       *)
(* (exactly min_update_distance requests, one metre less does not).        *)
C4_MovementThreshold ==
    [][LET la == IF lat_state'.exists /\ lat_state'.attr.k = "num"
                 THEN lat_state'.attr
                 ELSE IF lat_state'.exists THEN lat_state'.state ELSE Absent
           lo == IF lon_state'.exists /\ lon_state'.attr.k = "num"
                 THEN lon_state'.attr
                 ELSE IF lon_state'.exists THEN lon_state'.state ELSE Absent
       IN (/\ lat_state' # lat_state \/ lon_state' # lon_state
           /\ la.k = "num" /\ lo.k = "num"
           /\ la.v >= -90 * UnitsPerDegree /\ la.v <= 90 * UnitsPerDegree
           /\ lo.v >= -180 * UnitsPerDegree /\ lo.v <= 180 * UnitsPerDegree)
          => LET d2 == (la.v - last_api_latitude) * (la.v - last_api_latitude)
                     + (lo.v - last_api_longitude) * (lo.v - last_api_longitude)
                 m2 == min_update_distance * min_update_distance
             IN /\ d2 >= m2 => refresh_requested'
                /\ d2 < m2 => refresh_requested' = refresh_requested]_vars

(* after the first cycle, an observation exactly min_update_distance north *)
(* of the last fetch coordinate has requested a refresh                    *)
C4_Witness ==
    /\ ncycles >= 1
    /\ pc = "idle"
    /\ latitude = last_api_latitude + min_update_distance
    /\ longitude = last_api_longitude
    /\ lat_state = Entity(Absent, Num(latitude))
    /\ refresh_requested

(* C5: an observation whose latitude or longitude is out of range or not a *)
(* number is discarded: current coordinate, last fetch coordinate, cache,  *)
(* status flags and ResultSet are unchanged and no refresh is requested.   *)
C5_InvalidDiscarded ==
    [][LET la == IF lat_state'.exists /\ lat_state'.attr.k = "num"
                 THEN lat_state'.attr
                 ELSE IF lat_state'.exists THEN lat_state'.state ELSE Absent
           lo == IF lon_state'.exists /\ lon_state'.attr.k = "num"
                 THEN lon_state'.attr
                 ELSE IF lon_state'.exists THEN lon_state'.state ELSE Absent
       IN (/\ lat_state' # lat_state \/ lon_state' # lon_state
           /\ \/ la.k # "num" \/ lo.k # "num"
              \/ la.v < -90 * UnitsPerDegree \/ la.v > 90 * UnitsPerDegree
              \/ lo.v < -180 * UnitsPerDegree \/ lo.v > 180 * UnitsPerDegree)
          => UNCHANGED <<latitude, longitude, last_api_latitude,
                         last_api_longitude, cache, data, fallback_active,
                         active_provider_name, refresh_requested>>]_vars

(* the latitude entity shows a value beyond 90 degrees while the session   *)
(* keeps the coordinate it adopted before, with no refresh requested       *)
C5_Witness ==
    /\ lat_state = Entity(Absent, Num(LatLimit * UnitsPerDegree + 1))
    /\ latitude = MinDistance - 1
    /\ ncycles >= 1
    /\ ~refresh_requested

(* C6 as stated: once more than max_idle_duration seconds have passed      *)
(* since the last qualifying movement, polling-active is false.            *)
C6_IdleStopsPolling ==
    now - last_motion > MaxIdleDuration => polling_active = "false"

(* C7: no exception leaves a refresh cycle; every provider that failed,    *)
(* the primary that is not configured included, has a None entry in the    *)
(* ResultSet; after a failed primary the cycle goes on to the fallbacks;   *)
(* a cycle that fetched returns a ResultSet holding the primary's entry.   *)
C7_FailuresContained ==
    /\ cyc.status # "raised"
    /\ cyc.src = "fetch"
          => /\ \A p \in DOMAIN cyc.raw :
                    cyc.raw[p].none => p \in DOMAIN results /\ results[p].none
             /\ (/\ data_source \in DOMAIN cyc.raw
                 /\ cyc.raw[data_source].none
                 /\ providers \ {data_source} # {})
                    => \E p \in providers \ {data_source} :
                          \E i \in 1..Len(cyc.queried) : cyc.queried[i] = p
             /\ cyc.status = "returned"
                    => /\ data = results
                       /\ data_source \in DOMAIN data

(* a cycle has returned after all three providers failed *)
C7_Witness ==
    /\ cyc.status = "returned"
    /\ cyc.src = "fetch"
    /\ providers = Providers
    /\ \A p \in Providers : p \in DOMAIN data /\ data[p].none

(* C9 as stated: every provider query and the cache write of a cycle use   *)
(* the coordinate the cycle started with, so no ResultSet is stored under  *)
(* the cache key of another coordinate.                                    *)
C9_OneCoordinate == cyc.steady /\ cyc.same_cell

(* C10: no fallback is queried before the primary's outcome is known, none *)
(* when the primary has a usable speed_limit; otherwise the configured     *)
(* non-primary providers are queried one at a time in the order HERE,      *)
(* TomTom, OSM and the queries stop after the first usable speed_limit.    *)
C10_QueryOrder ==
    LET others == SelectSeq(<<"here", "tomtom", "osm">>,
                     LAMBDA p : p \in providers /\ p # data_source)
        expected == IF data_source \in providers
                    THEN <<data_source>> \o others ELSE others
        n == Len(cyc.queried)
    IN cyc.src = "fetch"
          => /\ n <= Len(expected)
             /\ cyc.queried = SubSeq(expected, 1, n)
             /\ pc = "fallback"
                   => /\ data_source \in DOMAIN results
                      /\ ~HasData(results, data_source)
             /\ HasData(results, data_source) => cyc.queried = <<data_source>>
             /\ \A i \in 1..(n - 1) :
                   /\ cyc.queried[i] \in DOMAIN results
                   /\ ~HasData(results, cyc.queried[i])
             /\ (cyc.status = "returned"
                 /\ \A p \in DOMAIN data : ~HasData(data, p))
                   => cyc.queried = expected

(* OSM is primary, HERE and TomTom were queried in that order after it and *)
(* TomTom's speed_limit ended the cycle                                    *)
C10_Witness ==
    /\ cyc.status = "returned"
    /\ cyc.queried = <<"osm", "here", "tomtom">>
    /\ HasData(data, "tomtom")
    /\ ~HasData(data, "here")

(* C11 as stated: after cycles and a read of the current result,           *)
(* fallback_active is true exactly when the surfaced result came from a    *)
(* provider other than the primary, and false whenever the surfaced result *)
(* is the primary's own entry.                                             *)
C11_FlagMatchesSource ==
    (pc = "idle" /\ cyc.status = "returned" /\ surfaced.read)
       => (fallback_active <=>
             get_primary_data_source(data, data_source) # data_source)

(* the stale flag: the last cycle was served from the cache, the read      *)
(* surfaced the primary's own speed limit, and fallback_active is true     *)
C11_StaleFlag ==
    /\ pc = "idle" /\ cyc.status = "returned" /\ cyc.src = "cache"
    /\ surfaced.read
    /\ HasData(data, data_source)
    /\ surfaced.entry = data[data_source]
    /\ fallback_active

C13_AsStated ==
    (conversion.step = "back" /\ conversion.speed \in {30, 50, 100}
     /\ conversion.from_unit = "km/h" /\ conversion.to_unit = "mph")
       => /\ conversion.back - conversion.speed <= 2
          /\ conversion.speed - conversion.back <= 2

(* C13 amended: the round trip km/h -> mph -> km/h never exceeds x and     *)
(* loses at most 8 km/h; 30 comes back as 24, 50 as 48 and 100 as 97.      *)
C13_RoundTrip ==
    (conversion.step = "back"
     /\ conversion.from_unit = "km/h" /\ conversion.to_unit = "mph")
       => /\ conversion.back <= conversion.speed
          /\ conversion.speed - conversion.back <= 8
          /\ conversion.speed = 30 => conversion.back = 24
          /\ conversion.speed = 50 => conversion.back = 48
          /\ conversion.speed = 100 => conversion.back = 97

(* 100 km/h went to 60 mph and back to 97 km/h *)
C13_Witness ==
    /\ conversion.step = "back"
    /\ conversion.from_unit = "km/h" /\ conversion.to_unit = "mph"
    /\ conversion.speed = 100
    /\ conversion.result = 60
    /\ conversion.back = 97

C15_NonTransientFailsAtOnce ==
    fetch.provider = "osm"
       => \A i \in 1..Len(fetch.seen) :
             (/\ fetch.seen[i].err = ""
              /\ fetch.seen[i].status \notin {200, 429, 502, 503, 504})
                => /\ i = Len(fetch.seen)
                   /\ fetch.step = "done"
                   /\ fetch.outcome.raised
                   /\ Len(fetch.slept) < i

C17_MalformedFails ==
    (/\ fetch.step = "done"
     /\ fetch.seen[Len(fetch.seen)].status = 200
     /\ fetch.seen[Len(fetch.seen)].body \in
           {"invalid_json", "not_object", "list_not_list"})
       => fetch.outcome.raised

(* C18: for every provider a successful call whose response holds no       *)
(* matching road returns a result with speed_limit absent and does not     *)
(* fail: the result is an entry, not the None of a failed call.            *)
C18_NoRoadsIsNoData ==
    (/\ fetch.step = "done"
     /\ fetch.seen[Len(fetch.seen)].status = 200
     /\ fetch.seen[Len(fetch.seen)].body = "no_roads")
       => /\ ~fetch.outcome.raised
          /\ ~fetch.outcome.value.none
          /\ fetch.outcome.value.speed_limit = NoSpeed

(* TomTom answered 200 with an empty list of addresses *)
C18_Witness ==
    /\ fetch.provider = "tomtom"
    /\ fetch.step = "done"
    /\ fetch.seen = <<[err |-> "", status |-> 200, body |-> "no_roads"]>>
    /\ fetch.outcome = Returned(Result(NoSpeed, "km/h"))

(* C19: a refresh asked for by the button is subject to the cache rules:   *)
(* when the speed reading is below 16 km/h or not usable and the cache     *)
(* holds an entry younger than 300 s for the cell of the current           *)
(* coordinate, the cycle returns the cached ResultSet and queries no       *)
(* provider; otherwise it queries the providers like any other cycle.      *)
C19_ManualRefreshUsesCache ==
    [][(ncycles >= 1 /\ ncycles' = ncycles + 1)
        => LET key == get_cache_key(latitude, longitude)
               young == /\ key \in DOMAIN cache
                        /\ now - cache[key].timestamp < 300
               eligible == speed_state.k # "num" \/ speed_state.v < 16
           IN /\ (eligible /\ young)
                    => /\ data' = cache[key].data
                       /\ cyc'.queried = <<>>
                       /\ pc' = "idle"
                       /\ cache' = cache
              /\ ~(eligible /\ young)
                    => /\ cyc'.queried = <<data_source>>
                       /\ pc' = "primary"]_vars

(* the button's refresh was served from the cache while the speed entity   *)
(* was unavailable                                                         *)
C19_Witness ==
    /\ ncycles = 2
    /\ cyc.src = "cache"
    /\ cyc.queried = <<>>
    /\ pc = "idle"
    /\ speed_state = Unavailable
    /\ now < 300

(* C20: in every state the configured providers contain OSM, contain       *)
(* TomTom iff a TomTom key was configured and HERE iff a HERE key was      *)
(* configured, and no operation after setup adds or removes a provider.    *)
C20_ProvidersFixed ==
    /\ [](/\ "osm" \in providers
          /\ "tomtom" \in providers <=> tomtom_api_key = "secret"
          /\ "here" \in providers <=> here_api_key = "secret"
          /\ providers \subseteq {"osm", "tomtom", "here"})
    /\ [][providers' = providers]_vars

(* a session set up with an empty TomTom key and a HERE key has run its    *)
(* cycles with OSM and HERE                                                *)
C20_Witness ==
    /\ tomtom_api_key = ""
    /\ here_api_key = "secret"
    /\ providers = {"osm", "here"}
    /\ ncycles = MaxCycles
    /\ cyc.status = "returned"
    /\ cyc.queried = <<"osm", "here">>

(* C21 as stated: when the polling state is not Active and a valid         *)
(* observation at distance >= min_update_distance arrives, the polling     *)
(* state is Active afterwards, last_motion is the current time, a refresh  *)
(* is requested and the one recurring timer runs.                          *)
C21_MovementWakes ==
    [][LET la == get_coordinate_from_entity(lat_state')
           lo == get_coordinate_from_entity(lon_state')
       IN (/\ polling_active # "true"
           /\ lat_state' # lat_state \/ lon_state' # lon_state
           /\ validate_coordinates(la, lo)
           /\ MovedEnough(calculate_distance2(last_api_latitude,
                                              last_api_longitude, la.v, lo.v),
                          min_update_distance))
          => /\ polling_active = "true"
             /\ Cardinality(polling_timers) = 1
             /\ refresh_requested'
             /\ last_motion' = now]_vars

(* C22 as stated: once the first refresh has returned and the polling      *)
(* sensor exists, the polling-active value it exposes is a boolean, there  *)
(* is at most one recurring timer, and a timer exists exactly when         *)
(* polling-active is true.                                                 *)
C22_OneTimerWhenActive ==
    data # EmptyResults
       => /\ polling_active \in {"true", "false"}
          /\ Cardinality(polling_timers) <= 1
          /\ polling_timers # {} <=> polling_active = "true"

(* C23 as stated: once the session is torn down, no step makes it request  *)
(* a refresh: a location observation delivered after teardown leaves       *)
(* refresh_requested as it was.                                            *)
C23_TeardownReleases ==
    [][~entry_loaded => (refresh_requested' => refresh_requested)]_vars

(* C24 as stated: a call of get_primary_data on a ResultSet whose primary   *)
(* entry has a speed_limit returns that entry and leaves fallback_active   *)
(* false, whatever it was before.                                          *)
C24_PrimaryClearsFlag ==
    [][(/\ surfaced'.read
        /\ surfaced' # surfaced
        /\ HasData(data, data_source))
          => /\ surfaced'.entry = data[data_source]
             /\ ~fallback_active']_vars

(* C25: when no entry of the ResultSet has a speed_limit, get_primary_data *)
(* returns the primary's entry as it is (None when there is none) and      *)
(* leaves fallback_active, the active provider and the ResultSet as they   *)
(* were.                                                                   *)
C25_NoneQualifyFrame ==
    [][(\A p \in Providers : ~HasData(data, p))
          => /\ surfaced'.read
             /\ surfaced'.entry = (IF data_source \in DOMAIN data
                                   THEN data[data_source] ELSE NoneEntry)
             /\ fallback_active' = fallback_active
             /\ active_provider_name' = active_provider_name
             /\ data' = data]_vars

(* the resolver has returned OSM's entry without a speed limit although    *)
(* HERE's entry stands before it in the order, the flags being those of an *)
(* earlier fallback to HERE                                                *)
C25_Witness ==
    /\ surfaced.read
    /\ data_source = "osm"
    /\ DOMAIN data = {"osm", "here"}
    /\ data["osm"] = Result(NoSpeed, "km/h")
    /\ data["here"] = NoneEntry
    /\ surfaced.entry = Result(NoSpeed, "km/h")
    /\ fallback_active
    /\ active_provider_name = "HERE Maps"

(* C26: after a cycle that queried the primary and got a usable            *)
(* speed_limit from it, fallback_active is false, the active provider is   *)
(* the primary, the ResultSet holds the primary's converted result and     *)
(* nothing else, and the cache holds that ResultSet (under the cell the    *)
(* cycle started in, when the session stayed in it).                       *)
C26_PrimarySuccess ==
    (/\ pc = "idle"
     /\ cyc.status = "returned"
     /\ cyc.src = "fetch"
     /\ data_source \in DOMAIN cyc.raw
     /\ ~cyc.raw[data_source].none
     /\ cyc.raw[data_source].speed_limit # NoSpeed)
       => /\ ~fallback_active
          /\ active_provider_name =
                (CASE data_source = "osm" -> "OpenStreetMap"
                   [] data_source = "tomtom" -> "TomTom"
                   [] data_source = "here" -> "HERE Maps")
          /\ cyc.queried = <<data_source>>
          /\ DOMAIN data = {data_source}
          /\ cyc.raw[data_source] = Result(55, "mph")
                => data[data_source] = (IF unit_preference = "mph"
                                        THEN Result(55, "mph")
                                        ELSE Result(89, "km/h"))
          /\ \E k \in DOMAIN cache : cache[k].data = data
          /\ cyc.same_cell
                => LET k == get_cache_key(last_api_latitude, last_api_longitude)
                   IN k \in DOMAIN cache /\ cache[k].data = data

(* the second cycle succeeded on the primary with fallback_active false    *)
(* after the first one, whose ResultSet lies in the cache of another cell, *)
(* had found no speed limit on the primary and set fallback_active         *)
C26_Witness ==
    /\ ncycles = 2
    /\ pc = "idle"
    /\ cyc.status = "returned"
    /\ cyc.src = "fetch"
    /\ HasData(data, data_source)
    /\ unit_preference = "km/h"
    /\ ~fallback_active
    /\ \E k \in DOMAIN cache :
          /\ k # get_cache_key(last_api_latitude, last_api_longitude)
          /\ ~HasData(cache[k].data, data_source)

(* C27: the ResultSet of a cycle that queried providers has an entry for   *)
(* the primary and for the configured non-primary providers, in the order  *)
(* HERE, TomTom, OSM, up to and including the first with a usable          *)
(* speed_limit, and for no other provider; fallbacks are tried only after  *)
(* a primary without one; a provider that failed has a None entry.         *)
C27_EntriesAreAttempts ==
    (pc = "idle" /\ cyc.status = "returned" /\ cyc.src = "fetch")
       => LET others == SelectSeq(<<"here", "tomtom", "osm">>,
                           LAMBDA p : p \in providers /\ p # data_source)
              usable(p) == /\ p \in DOMAIN data
                           /\ ~data[p].none
                           /\ data[p].speed_limit # NoSpeed
          IN /\ \E n \in 0..Len(others) :
                   /\ DOMAIN data =
                         {data_source} \cup {others[i] : i \in 1..n}
                   /\ \A i \in 1..(n - 1) : ~usable(others[i])
                   /\ usable(data_source) => n = 0
                   /\ (~usable(data_source) /\ n < Len(others))
                         => n >= 1 /\ usable(others[n])
                   /\ Len(cyc.queried) =
                         n + (IF data_source \in providers THEN 1 ELSE 0)
             /\ \A p \in DOMAIN cyc.raw :
                   cyc.raw[p].none
                      => p \in DOMAIN data /\ data[p] = NoneEntry

(* primary TomTom failed, HERE answered with a speed limit, and OSM, which *)
(* is configured and stands after HERE, has no entry                       *)
C27_Witness ==
    /\ pc = "idle" /\ cyc.status = "returned" /\ cyc.src = "fetch"
    /\ data_source = "tomtom"
    /\ providers = {"osm", "tomtom", "here"}
    /\ DOMAIN data = {"tomtom", "here"}
    /\ data["tomtom"] = NoneEntry
    /\ cyc.queried = <<"tomtom", "here">>
    /\ data["here"].speed_limit # NoSpeed

(* C28 as stated: every entry with a speed_limit that a cycle stores has   *)
(* the preferred unit and the speed_limit convert(provider's speed_limit,  *)
(* provider's unit, preferred unit), also when the two units are equal.    *)
C28_StoredConverted ==
    (pc = "idle" /\ cyc.status = "returned" /\ cyc.src = "fetch")
       => \A p \in DOMAIN data :
             (~data[p].none /\ data[p].speed_limit # NoSpeed)
                => /\ data[p].unit = unit_preference
                   /\ data[p].speed_limit =
                         convert_speed(cyc.raw[p].speed_limit, cyc.raw[p].unit,
                                       unit_preference)

(* C29 as stated: a cycle that queried providers has written its ResultSet *)
(* to the cache when it returns, whatever the providers answered, and the  *)
(* next cycle, when it starts in the cache cell that cycle started in,     *)
(* with the cache eligible and within the TTL, queries no provider and     *)
(* returns that ResultSet.                                                 *)
C29_FetchedIsCached ==
    /\ []((pc = "idle" /\ cyc.status = "returned" /\ cyc.src = "fetch")
             => \E k \in DOMAIN cache : cache[k].data = data)
    /\ [][(/\ ncycles' = ncycles + 1
            /\ cyc.status = "returned"
            /\ cyc.src = "fetch"
            /\ ~speed_entity_id
            /\ now < 300
            /\ get_cache_key(latitude, longitude) =
                  get_cache_key(last_api_latitude, last_api_longitude))
              => /\ cyc'.src = "cache"
                 /\ cyc'.queried = <<>>
                 /\ pc' = "idle"
                 /\ data' = data]_vars

(* C30: a cycle consults the cache unless a speed source is configured and *)
(* its reading is a number >= 16 km/h: with no speed source, with no       *)
(* state, with "unavailable" or "unknown" or with text that is no number,  *)
(* a young entry of the current cell is returned without a provider query, *)
(* and no such reading makes the cycle raise.                              *)
C30_CacheEligibility ==
    [][ncycles' = ncycles + 1
        => LET key == get_cache_key(latitude, longitude)
               young == /\ key \in DOMAIN cache
                        /\ now - cache[key].timestamp < 300
               bypass == /\ speed_entity_id
                         /\ speed_state.k = "num"
                         /\ speed_state.v >= 16
           IN /\ cyc'.status # "raised"
              /\ (~bypass /\ young)
                    => /\ cyc'.src = "cache"
                       /\ cyc'.queried = <<>>
                       /\ data' = cache[key].data
                       /\ pc' = "idle"
              /\ (bypass \/ ~young)
                    => /\ cyc'.src = "fetch"
                       /\ pc' = "primary"]_vars

(* a cycle was served from the cache while the speed entity showed text    *)
(* that is no number                                                       *)
C30_Witness ==
    /\ speed_entity_id
    /\ speed_state = Garbage
    /\ ncycles >= 2
    /\ pc = "idle"
    /\ cyc.status = "returned"
    /\ cyc.src = "cache"
    /\ cyc.queried = <<>>

(* C31 as stated: the last fetch coordinate changes only in a step that    *)
(* starts a cycle which goes on to query a provider; a cycle served from   *)
(* the cache leaves it unchanged.                                          *)
C31_LastFetchIsLastQuery ==
    [][(\/ last_api_latitude' # last_api_latitude
        \/ last_api_longitude' # last_api_longitude)
          => /\ ncycles' = ncycles + 1
             /\ cyc'.src = "fetch"]_vars

(* C32: a cycle is served from the cache only by an entry younger than     *)
(* 300 s; a lookup that finds an entry of age 300 s or more removes it and *)
(* the cycle goes on to the providers; no other step removes an entry.     *)
C32_LazyEviction ==
    [][LET key == get_cache_key(latitude, longitude)
           starts == ncycles' = ncycles + 1
           eligible == ~(/\ speed_entity_id
                         /\ speed_state.k = "num"
                         /\ speed_state.v >= 16)
       IN /\ (starts /\ cyc'.src = "cache")
                => /\ key \in DOMAIN cache
                   /\ now - cache[key].timestamp < 300
                   /\ data' = cache[key].data
          /\ (/\ starts /\ eligible
              /\ key \in DOMAIN cache
              /\ now - cache[key].timestamp >= 300)
                => /\ key \notin DOMAIN cache'
                   /\ cyc'.src = "fetch"
          /\ \A k \in DOMAIN cache :
                k \notin DOMAIN cache'
                   => /\ starts /\ eligible
                      /\ k = key
                      /\ now - cache[k].timestamp >= 300]_vars

(* the second cycle, 300 s after the first wrote the only entry, has       *)
(* removed it and awaits the primary                                       *)
C32_Witness ==
    /\ ncycles = 2
    /\ pc = "primary"
    /\ now = 300
    /\ speed_state = Num(15)
    /\ latitude = 0
    /\ cache = EmptyCache

(* C33: when some element carries a maxspeed tag, the OSM result is that   *)
(* of one such element, and no element with a maxspeed tag is strictly     *)
(* nearer to the query point than it, an element without a point counting  *)
(* as infinitely far.                                                      *)
C33_NearestMatch ==
    (/\ parse.step = "done"
     /\ \E i \in 1..Len(parse.elements) : parse.elements[i].maxspeed # "")
       => /\ \E i \in 1..Len(parse.elements) :
                LET e == parse.elements[i]
                IN /\ e.maxspeed # ""
                   /\ parse.distance = (IF e.located THEN e.metres
                                        ELSE Infinity)
                   /\ parse.result.speed_limit =
                         (CASE e.maxspeed = "50" -> 50
                            [] e.maxspeed = "30 mph" -> 30
                            [] OTHER -> NoSpeed)
          /\ \A i \in 1..Len(parse.elements) :
                LET e == parse.elements[i]
                IN (e.maxspeed # "" /\ e.located)
                      => e.metres >= parse.distance

(* of a road 50 m away, a road without a point and a road 5 m away, in     *)
(* this order, the parser has returned the one 5 m away                    *)
C33_Witness ==
    /\ parse.step = "done"
    /\ Len(parse.elements) = 3
    /\ parse.elements[1] = [maxspeed |-> "50", located |-> TRUE, metres |-> 50]
    /\ parse.elements[2] = [maxspeed |-> "50", located |-> FALSE, metres |-> 0]
    /\ parse.elements[3] =
          [maxspeed |-> "30 mph", located |-> TRUE, metres |-> 5]
    /\ parse.distance = 5
    /\ parse.result = Result(30, "mph")

(* C38: when some element of the response carries a maxspeed that parses   *)
(* to a number, the result of the OSM parser has a speed limit.            *)
C38_NumericCandidateGivesData ==
    (/\ parse.step = "done"
     /\ \E i \in 1..Len(parse.elements) :
           parse.elements[i].maxspeed \in {"50", "30 mph"})
       => parse.result.speed_limit # NoSpeed

(* C34: with no refresh cycle in between, a call of get_primary_data after *)
(* an earlier call returns the entry the earlier call returned and leaves  *)
(* fallback_active and the active provider as the earlier call left them,  *)
(* for every ResultSet and every value the flags had before.               *)
C34_ReadIdempotent ==
    [][surfaced.read
          => /\ surfaced'.read
             /\ surfaced'.entry = surfaced.entry
             /\ fallback_active' = fallback_active
             /\ active_provider_name' = active_provider_name]_vars

(* a read has fallen back from an OSM entry without a limit to HERE's      *)
(* entry and has written the flags; every further read starts here         *)
C34_Witness ==
    /\ surfaced.read
    /\ data_source = "osm"
    /\ DOMAIN data = {"osm", "here", "tomtom"}
    /\ data["osm"] = Result(NoSpeed, "km/h")
    /\ HasData(data, "here")
    /\ HasData(data, "tomtom")
    /\ surfaced.entry = data["here"]
    /\ fallback_active
    /\ active_provider_name = "HERE Maps"

(* C35: when, between two cycles, get_primary_data has surfaced an entry   *)
(* with a speed limit, the active provider names a provider whose entry of *)
(* the ResultSet that is.                                                  *)
C35_ActiveProviderIsSurfaced ==
    (/\ pc = "idle"
     /\ surfaced.read
     /\ surfaced.entry.speed_limit # NoSpeed)
       => \E p \in DOMAIN data :
             /\ data[p] = surfaced.entry
             /\ active_provider_name = DATA_SOURCE_NAMES(p)

(* C36: a cycle queries no provider twice and only configured providers of *)
(* {HERE, TomTom, OSM}, and, every provider query ending, a running cycle  *)
(* ends.                                                                   *)
C36_CycleTerminates ==
    /\ [](/\ \A i, j \in 1..Len(cyc.queried) :
               i # j => cyc.queried[i] # cyc.queried[j]
          /\ \A i \in 1..Len(cyc.queried) :
               cyc.queried[i] \in providers \cap Providers)
    /\ (pc # "idle") ~> (pc = "idle")

(* a cycle has ended after querying the primary OSM and both fallbacks,    *)
(* each once, none of them with a result                                   *)
C36_Witness ==
    /\ pc = "idle"
    /\ cyc.status = "returned"
    /\ cyc.queried = <<"osm", "here", "tomtom">>
    /\ \A p \in Providers : p \in DOMAIN data /\ ~HasData(data, p)

(* C37: when the location source reports pairs through a latitude entity   *)
(* and a longitude entity written one after the other, every coordinate    *)
(* the session adopts, and every coordinate whose distance from the last   *)
(* fetch makes it request a refresh, is a pair the source reported.        *)
C37_NoMixedPair ==
    [][/\ (latitude' # latitude \/ longitude' # longitude)
            => <<latitude', longitude'>> \in fixes'.reported
       /\ (refresh_requested' /\ ~refresh_requested)
            => <<latitude', longitude'>> \in fixes'.reported]_vars

(* C39: a cycle served from the cache queries no provider and changes, of  *)
(* the session and its configuration, only the last fetch coordinate and   *)
(* the exposed ResultSet: the cache with the timestamps of its entries,    *)
(* fallback_active, the active provider and the current coordinate stay.   *)
C39_CacheHitFrame ==
    [][(ncycles' = ncycles + 1 /\ cyc'.src = "cache")
          => /\ cyc'.queried = <<>>
             /\ pc' = "idle"
             /\ cache' = cache
             /\ fallback_active' = fallback_active
             /\ active_provider_name' = active_provider_name
             /\ latitude' = latitude
             /\ longitude' = longitude
             /\ config' = config]_vars

(* the second cycle, 150 s after the first one stored OSM's empty result   *)
(* and set fallback_active, has been served from the cache: the entry      *)
(* keeps the timestamp of the fetch                                        *)
C39_Witness ==
    /\ ncycles = 2
    /\ cyc.src = "cache"
    /\ cyc.status = "returned"
    /\ now = 150
    /\ latitude = 0
    /\ get_cache_key(0, 0) \in DOMAIN cache
    /\ cache[get_cache_key(0, 0)].timestamp = 0
    /\ data = cache[get_cache_key(0, 0)].data
    /\ fallback_active

====
